---- MODULE Spec2Model ----
(***************************************************************************)
(* Model of the Geo-guess-game asset pipeline:                             *)
(*   geo_tools.py          generate_stylized_maps                          *)
(*   creation_database.py  create_database_with_image_paths                *)
(* Strings are sequences of one-character strings, so that lower(),        *)
(* replace() and os.path.join() are computed character by character.       *)
(***************************************************************************)
EXTENDS Integers, Sequences, FiniteSets, TLC

VARIABLES
    \* --- path planning (both call sites applied to one name and folder)
    ppc,                \* position: "input", "planned", "again"
    name,               \* the display name
    folder,             \* the output folder
    db_image_path,      \* creation_database.py: value stored in image_path
    png_path,           \* geo_tools.py: output_png_file
    db_stem2,           \* the database stem canonicalised a second time
    png_stem2,          \* safe_country_name canonicalised a second time
    \* --- generate_stylized_maps
    gpc,                \* position in generate_stylized_maps
    folder_exists,      \* os.path.exists(output_folder)
    country_names,      \* list read from the CSV (header=None, first column)
    world,              \* names of the entities of the GeoJSON
    idx,                \* index of the record the for loop is at
    status,             \* per record: PENDING, MATCHED, RENDERED, ...
    missing_countries,  \* the list missing_countries
    written,            \* PNG paths the run has written
    manifest,           \* the file at missing_txt_path
    manifest_before,    \* that file as it was when the run started
    \* --- create_database_with_image_paths
    dpc,                \* position in create_database_with_image_paths
    conn,               \* "none", "open", "closed"
    csv,                \* the CSV file the run is given
    countries_df,       \* the DataFrame (columns, dtypes, rows)
    db_table,           \* the table in the database file
    pending,            \* rows inserted in the open transaction
    rows_before,        \* rows of the table when the run started
    failed,             \* the except clause the run entered, "" if none
    runs                \* number of runs started

pathVars == <<ppc, name, folder, db_image_path, png_path, db_stem2, png_stem2>>
mapVars  == <<gpc, folder_exists, country_names, world, idx, status,
              missing_countries, written, manifest, manifest_before>>
dbVars   == <<dpc, conn, csv, countries_df, db_table, pending, rows_before,
              failed, runs>>
vars     == <<pathVars, mapVars, dbVars>>

(***************************************************************************)
(* Bounds                                                                  *)
(***************************************************************************)
MaxLen == 3         \* longest display name of the path-planning check
MaxRecords == 2     \* longest country list of a map-generation run
MaxRuns == 2        \* runs of the database build against one file

(***************************************************************************)
(* Python string operations                                                *)
(***************************************************************************)
UPPER == <<"A","B","C","D","E","F","G","H","I","J","K","L","M",
           "N","O","P","Q","R","S","T","U","V","W","X","Y","Z">>
LOWER == <<"a","b","c","d","e","f","g","h","i","j","k","l","m",
           "n","o","p","q","r","s","t","u","v","w","x","y","z">>

\* str.lower() on one character
LowerChar(c) ==
    IF \E i \in 1..Len(UPPER) : UPPER[i] = c
    THEN LOWER[CHOOSE i \in 1..Len(UPPER) : UPPER[i] = c]
    ELSE c

\* str.lower()
lower(s) == [i \in 1..Len(s) |-> LowerChar(s[i])]

\* str.replace(old, new) for a one-character old and a string new
RECURSIVE replace(_, _, _)
replace(s, old, new) ==
    IF s = <<>> THEN <<>>
    ELSE (IF Head(s) = old THEN new ELSE <<Head(s)>>) \o replace(Tail(s), old, new)

\* os.path.join(a, b) of posixpath, two components
join(a, b) ==
    IF b # <<>> /\ Head(b) = "/" THEN b
    ELSE IF a = <<>> \/ a[Len(a)] = "/" THEN a \o b
    ELSE a \o <<"/">> \o b

PNG == <<".", "p", "n", "g">>

(***************************************************************************)
(* The two call sites that build an image path                             *)
(***************************************************************************)
\* a plausible slip: parentheses turned into spaces instead of removed
safe_country_name_paren_to_space(country_name) ==
    replace(replace(replace(replace(lower(country_name),
        " ", <<"_">>), "(", <<" ">>), ")", <<" ">>), ".", <<>>)

\* geo_tools.py line 57
safe_country_name(country_name) ==
    replace(replace(replace(replace(lower(country_name),
        " ", <<"_">>), "(", <<>>), ")", <<>>), ".", <<>>)

\* a plausible slip: the file is named after the raw display name
output_png_file_raw_name(output_folder, country_name) ==
    join(output_folder, country_name \o PNG)

\* geo_tools.py line 59
output_png_file(output_folder, country_name) ==
    join(output_folder, safe_country_name(country_name) \o PNG)

\* creation_database.py line 37, the expression inside the f-string
image_file_stem(n) ==
    replace(replace(replace(replace(lower(n),
        " ", <<"_">>), "(", <<>>), ")", <<>>), ".", <<>>)

\* a plausible slip: the database side forgets to strip the dots
image_path_keeps_dots(output_image_folder, n) ==
    join(output_image_folder,
         replace(replace(replace(lower(n), " ", <<"_">>), "(", <<>>), ")", <<>>) \o PNG)

\* creation_database.py lines 35-38, the lambda applied to each name
image_path(output_image_folder, n) ==
    join(output_image_folder, image_file_stem(n) \o PNG)

(***************************************************************************)
(* Path planning: both call sites applied to the same name and folder      *)
(***************************************************************************)
Alphabet == {"F", "f", " ", "_", "(", ")", ".", "/"}

RECURSIVE StringsUpTo(_)
StringsUpTo(k) ==
    IF k = 0 THEN {<<>>}
    ELSE LET shorter == StringsUpTo(k - 1)
         IN  shorter \cup {Append(s, c) : s \in {t \in shorter : Len(t) = k - 1},
                                           c \in Alphabet}

PlanNames == StringsUpTo(MaxLen)
PlanFolders == {<<>>, <<"m">>, <<"m", "/">>}

None == <<"None">>

MapIdle ==
    /\ gpc = "idle" /\ folder_exists = FALSE /\ country_names = <<>>
    /\ world = {} /\ idx = 0 /\ status = <<>> /\ missing_countries = <<>>
    /\ written = {} /\ manifest = None /\ manifest_before = None

\* no DataFrame, and no table in the database file
NoFrame == [kind |-> "none", columns |-> <<>>, dtypes |-> <<>>, rows |-> <<>>]
NoTable == [exists |-> FALSE, columns |-> <<>>, rows |-> <<>>]

DbIdle ==
    /\ dpc = "idle" /\ conn = "none" /\ csv = NoFrame /\ countries_df = NoFrame
    /\ db_table = NoTable /\ pending = <<>> /\ rows_before = <<>>
    /\ failed = "" /\ runs = 0

PathIdle ==
    /\ ppc = "idle" /\ name = <<>> /\ folder = <<>> /\ db_image_path = None
    /\ png_path = None /\ db_stem2 = None /\ png_stem2 = None

InitPaths ==
    /\ ppc = "input"
    /\ name \in PlanNames
    /\ folder \in PlanFolders
    /\ db_image_path = None /\ png_path = None
    /\ db_stem2 = None /\ png_stem2 = None
    /\ MapIdle /\ DbIdle

\* both call sites compute their path for the name
PlanBoth ==
    /\ ppc = "input"
    /\ db_image_path' = image_path(folder, name)
    /\ png_path' = output_png_file(folder, name)
    /\ ppc' = "planned"
    /\ UNCHANGED <<name, folder, db_stem2, png_stem2, mapVars, dbVars>>

\* the canonical identifier is fed back through each canonicalisation
Recanonicalize ==
    /\ ppc = "planned"
    /\ db_stem2' = image_file_stem(image_file_stem(name))
    /\ png_stem2' = safe_country_name(safe_country_name(name))
    /\ ppc' = "again"
    /\ UNCHANGED <<name, folder, db_image_path, png_path, mapVars, dbVars>>

NextPaths == PlanBoth \/ Recanonicalize

SpecPaths == InitPaths /\ [][NextPaths]_vars

\* C1: for every display name and output folder, the image_path stored by the
\* database build equals the destination path the renderer uses
C1_PathsAgree ==
    ppc # "input" => db_image_path = png_path

C1_Witness ==
    /\ ppc = "planned"
    /\ name = <<"F", " ", ".">>
    /\ folder = <<"m">>
    /\ db_image_path = <<"m", "/", "f", "_", ".", "p", "n", "g">>

\* C6: canonicalising a canonical identifier again changes nothing, at both
\* call sites
C6_Idempotent ==
    ppc = "again" =>
        /\ png_stem2 = safe_country_name(name)
        /\ db_stem2 = image_file_stem(name)

C6_Witness ==
    /\ ppc = "again"
    /\ name = <<"F", "(", " ">>
    /\ png_stem2 = <<"f", "_">>
    /\ db_stem2 = <<"f", "_">>

(***************************************************************************)
(* generate_stylized_maps                                                  *)
(***************************************************************************)
Mali     == <<"M", "a", "l", "i">>
MALI     == <<"M", "A", "L", "I">>
mali     == <<"m", "a", "l", "i">>
U_space_K == <<"U", " ", "K">>
U_under_K == <<"U", "_", "K">>
U_under_K_dot == <<"U", "_", "K", ".">>
Atlantis == <<"O", "z">>

\* the names a CSV may list, and the names the GeoJSON entities may carry
DisplayNames  == {Mali, MALI, U_space_K, U_under_K, U_under_K_dot, Atlantis}
BoundaryNames == {mali, U_space_K, U_under_K, U_under_K_dot}

OutputFolder == <<"m", "a", "p", "s">>

\* line 59 for every name a CSV may list, with the default-style folder
output_png_files == [n \in DisplayNames |-> output_png_file(OutputFolder, n)]

RECURSIVE ListsUpTo(_)
ListsUpTo(k) ==
    IF k = 0 THEN {<<>>}
    ELSE LET shorter == ListsUpTo(k - 1)
         IN  shorter \cup {Append(s, n) : s \in {t \in shorter : Len(t) = k - 1},
                                           n \in DisplayNames}

\* pd.read_csv raises on a file without rows, so a loaded list is not empty
CsvLists == ListsUpTo(MaxRecords) \ {<<>>}

\* the text f.write(f"{country}\n") produces for each entry of a list
RECURSIVE ManifestText(_)
ManifestText(lines) ==
    IF lines = <<>> THEN <<>>
    ELSE Head(lines) \o <<"\n">> \o ManifestText(Tail(lines))

StaleManifest == ManifestText(<<Atlantis>>)

InitMaps ==
    /\ gpc = "start"
    /\ folder_exists \in BOOLEAN
    /\ manifest \in {None, StaleManifest}
    /\ manifest_before = manifest
    /\ country_names = <<>> /\ world = {} /\ idx = 0 /\ status = <<>>
    /\ missing_countries = <<>> /\ written = {}
    /\ PathIdle /\ DbIdle

\* lines 21-26: create the output folder, missing_countries = []
EnsureFolder ==
    /\ gpc = "start"
    /\ folder_exists' = TRUE
    /\ missing_countries' = <<>>
    /\ gpc' = "read_csv"
    /\ UNCHANGED <<country_names, world, idx, status, written, manifest,
                   manifest_before, pathVars, dbVars>>

\* lines 28-33: the CSV loads
ReadCsvOk ==
    /\ gpc = "read_csv"
    /\ \E names \in CsvLists :
        /\ country_names' = names
        /\ status' = [i \in 1..Len(names) |-> "PENDING"]
    /\ gpc' = "read_geo"
    /\ UNCHANGED <<folder_exists, world, idx, missing_countries, written,
                   manifest, manifest_before, pathVars, dbVars>>

\* lines 35-40: the CSV is absent, empty or malformed; the function returns
ReadCsvFails ==
    /\ gpc = "read_csv"
    /\ gpc' = "returned"
    /\ UNCHANGED <<folder_exists, country_names, world, idx, status,
                   missing_countries, written, manifest, manifest_before,
                   pathVars, dbVars>>

\* lines 42-45: the GeoJSON loads
ReadGeoOk ==
    /\ gpc = "read_geo"
    /\ world' \in SUBSET BoundaryNames
    /\ idx' = 1
    /\ gpc' = "loop"
    /\ UNCHANGED <<folder_exists, country_names, status, missing_countries,
                   written, manifest, manifest_before, pathVars, dbVars>>

\* lines 46-51: the GeoJSON is absent or malformed; the function returns
ReadGeoFails ==
    /\ gpc = "read_geo"
    /\ gpc' = "returned"
    /\ UNCHANGED <<folder_exists, country_names, world, idx, status,
                   missing_countries, written, manifest, manifest_before,
                   pathVars, dbVars>>

\* a plausible slip: the lookup compares the canonical identifiers
found_country_by_identifier(country_name) ==
    {e \in world : safe_country_name(e) = safe_country_name(country_name)}

\* line 64: world[world['name'].str.lower() == country_name.lower()]
found_country(country_name) ==
    {e \in world : lower(e) = lower(country_name)}

\* lines 54-66: next record, the lookup finds an entity
LookupFound ==
    /\ gpc = "loop" /\ idx <= Len(country_names)
    /\ found_country(country_names[idx]) # {}
    /\ status' = [status EXCEPT ![idx] = "MATCHED"]
    /\ gpc' = "render"
    /\ UNCHANGED <<folder_exists, country_names, world, idx, missing_countries,
                   written, manifest, manifest_before, pathVars, dbVars>>

\* lines 54-66, 86-89: next record, no entity: recorded as missing
LookupNotFound ==
    /\ gpc = "loop" /\ idx <= Len(country_names)
    /\ found_country(country_names[idx]) = {}
    /\ status' = [status EXCEPT ![idx] = "UNMATCHED"]
    /\ missing_countries' = Append(missing_countries, country_names[idx])
    /\ idx' = idx + 1
    /\ UNCHANGED <<gpc, folder_exists, country_names, world, written, manifest,
                   manifest_before, pathVars, dbVars>>

\* lines 68-79: the figure is drawn, saved and closed
RenderOk ==
    /\ gpc = "render"
    /\ written' = written \cup {output_png_files[country_names[idx]]}
    /\ status' = [status EXCEPT ![idx] = "RENDERED"]
    /\ idx' = idx + 1
    /\ gpc' = "loop"
    /\ UNCHANGED <<folder_exists, country_names, world, missing_countries,
                   manifest, manifest_before, pathVars, dbVars>>

\* a plausible slip: a rendering exception is not caught and ends the run
RenderFailsAborts ==
    /\ gpc = "render"
    /\ status' = [status EXCEPT ![idx] = "RENDER_FAILED"]
    /\ gpc' = "returned"
    /\ UNCHANGED <<folder_exists, country_names, world, idx, missing_countries,
                   written, manifest, manifest_before, pathVars, dbVars>>

\* lines 69-77, 80-82: an exception before savefig has created the file
RenderFails ==
    /\ gpc = "render"
    /\ status' = [status EXCEPT ![idx] = "RENDER_FAILED"]
    /\ missing_countries' = Append(missing_countries, country_names[idx])
    /\ idx' = idx + 1
    /\ gpc' = "loop"
    /\ UNCHANGED <<folder_exists, country_names, world, written, manifest,
                   manifest_before, pathVars, dbVars>>

\* lines 77-78, 80-82: an exception once savefig has created the file (while
\* it writes, or in plt.close)
RenderFailsAfterWrite ==
    /\ gpc = "render"
    /\ written' = written \cup {output_png_files[country_names[idx]]}
    /\ status' = [status EXCEPT ![idx] = "RENDER_FAILED"]
    /\ missing_countries' = Append(missing_countries, country_names[idx])
    /\ idx' = idx + 1
    /\ gpc' = "loop"
    /\ UNCHANGED <<folder_exists, country_names, world, manifest,
                   manifest_before, pathVars, dbVars>>

\* a plausible slip: the manifest is opened for appending
WriteManifestAppends ==
    /\ gpc = "loop" /\ idx > Len(country_names)
    /\ missing_countries # <<>>
    /\ manifest' = (IF manifest = None THEN <<>> ELSE manifest)
                       \o ManifestText(missing_countries)
    /\ gpc' = "done"
    /\ UNCHANGED <<folder_exists, country_names, world, idx, status,
                   missing_countries, written, manifest_before, pathVars, dbVars>>

\* lines 92-96: open(missing_txt_path, 'w') and one line per missing country
WriteManifest ==
    /\ gpc = "loop" /\ idx > Len(country_names)
    /\ missing_countries # <<>>
    /\ manifest' = ManifestText(missing_countries)
    /\ gpc' = "done"
    /\ UNCHANGED <<folder_exists, country_names, world, idx, status,
                   missing_countries, written, manifest_before, pathVars, dbVars>>

\* a plausible slip: nothing is done when no country is missing
RemoveManifestForgotten ==
    /\ gpc = "loop" /\ idx > Len(country_names)
    /\ missing_countries = <<>>
    /\ gpc' = "done"
    /\ UNCHANGED <<folder_exists, country_names, world, idx, status,
                   missing_countries, written, manifest, manifest_before,
                   pathVars, dbVars>>

\* lines 97-101: no missing country: the manifest is removed if it exists
RemoveManifest ==
    /\ gpc = "loop" /\ idx > Len(country_names)
    /\ missing_countries = <<>>
    /\ manifest' = None
    /\ gpc' = "done"
    /\ UNCHANGED <<folder_exists, country_names, world, idx, status,
                   missing_countries, written, manifest_before, pathVars, dbVars>>

NextMaps ==
    \/ EnsureFolder
    \/ ReadCsvOk
    \/ ReadCsvFails
    \/ ReadGeoOk
    \/ ReadGeoFails
    \/ LookupFound
    \/ LookupNotFound
    \/ RenderOk
    \/ RenderFails
    \/ RenderFailsAfterWrite
    \/ WriteManifest
    \/ RemoveManifest

SpecMaps == InitMaps /\ [][NextMaps]_vars

\* the function runs to its end once called: no step of it waits for anything
FairSpecMaps == InitMaps /\ [][NextMaps]_vars /\ WF_vars(NextMaps)

(***************************************************************************)
(* Properties of generate_stylized_maps                                    *)
(***************************************************************************)
Records == 1..Len(country_names)

\* the display names of the records in the given states, in source order
RECURSIVE NamesWithStatus(_, _)
NamesWithStatus(i, states) ==
    IF i > Len(country_names) THEN <<>>
    ELSE (IF status[i] \in states THEN <<country_names[i]>> ELSE <<>>)
             \o NamesWithStatus(i + 1, states)

Missed == NamesWithStatus(1, {"UNMATCHED", "RENDER_FAILED"})

RunEnded == gpc \in {"done", "returned"}

\* C2 as stated: after any run that ends with an empty missing-entries
\* sequence, no manifest file exists
C2_NoManifestAfterAnyRun ==
    (RunEnded /\ missing_countries = <<>>) => manifest = None

\* C2 amended: after a run that loaded both inputs and reached the manifest
\* step with an empty missing-entries sequence, no manifest file exists
C2_NoManifestAfterCompletedRun ==
    (gpc = "done" /\ missing_countries = <<>>) => manifest = None

C2_Witness ==
    /\ gpc = "done"
    /\ missing_countries = <<>>
    /\ manifest_before = StaleManifest
    /\ manifest = None

\* C3: after a run with a non-empty missing-entries sequence the manifest
\* holds exactly the names of the UNMATCHED and RENDER_FAILED records, one
\* line each, in source order, and nothing else
C3_ManifestIsTheMissed ==
    (gpc = "done" /\ missing_countries # <<>>) =>
        /\ manifest = ManifestText(Missed)
        /\ Len(Missed) =
             Cardinality({i \in Records : status[i] \in {"UNMATCHED", "RENDER_FAILED"}})

C3_Witness ==
    /\ gpc = "done"
    /\ manifest_before = StaleManifest
    /\ country_names = <<U_space_K, Mali>>
    /\ status = <<"RENDER_FAILED", "UNMATCHED">>
    /\ manifest = <<"U", " ", "K", "\n", "M", "a", "l", "i", "\n">>

Terminal == {"RENDERED", "RENDER_FAILED", "UNMATCHED"}

BothLoaded == gpc = "loop" /\ idx = 1

BatchCompleted ==
    /\ gpc = "done"
    /\ \A i \in Records : status[i] \in Terminal

\* C4: a rendering failure is recorded as a miss and the loop goes on: every
\* record before the loop index is terminal and the failed ones are in the
\* missing-entries sequence; once both inputs have loaded, the run reaches
\* the end with every record terminal and the manifest step done
C4_FailureDoesNotAbort ==
    /\ [](gpc \in {"loop", "render", "done"} =>
            /\ \A i \in Records : i < idx => status[i] \in Terminal
            /\ missing_countries = Missed)
    /\ (BothLoaded ~> BatchCompleted)

C4_Witness ==
    /\ gpc = "done"
    /\ Len(country_names) = 2
    /\ status = <<"RENDER_FAILED", "RENDERED">>
    /\ missing_countries = <<country_names[1]>>

Rendered == {i \in Records : status[i] = "RENDERED"}
Matched == {i \in Records : status[i] \in {"RENDERED", "RENDER_FAILED"}}

\* C5 as stated, on a source whose display names are pairwise distinct and a
\* run in which no rendering failed: the number of distinct PNG files written
\* equals the number of records that ended RENDERED
C5_OneFilePerRendered ==
    (/\ gpc = "done"
     /\ Matched = Rendered
     /\ \A i, j \in Records : country_names[i] = country_names[j] => i = j)
        => Cardinality(written) = Cardinality(Rendered)

\* C5 amended: every RENDERED record's <canonical_identifier>.png is written
\* and every written file is that of a matched record; when no rendering
\* failed, the number of files is the number of distinct canonical
\* identifiers among the RENDERED records
C5_OneFilePerIdentifier ==
    gpc = "done" =>
        /\ \A i \in Rendered :
              join(OutputFolder, safe_country_name(country_names[i]) \o PNG) \in written
        /\ \A f \in written : \E i \in Matched :
              f = join(OutputFolder, safe_country_name(country_names[i]) \o PNG)
        /\ (Matched = Rendered =>
              Cardinality(written) =
                Cardinality({safe_country_name(country_names[i]) : i \in Rendered}))

C5_Witness ==
    /\ gpc = "done"
    /\ country_names = <<U_space_K, U_under_K_dot>>
    /\ status = <<"RENDERED", "RENDERED">>
    /\ written = {<<"m", "a", "p", "s", "/", "u", "_", "k", ".", "p", "n", "g">>}

\* two characters that are equal or the two cases of one letter
SameLetter(c, d) ==
    \/ c = d
    \/ \E k \in 1..Len(UPPER) : {c, d} = {UPPER[k], LOWER[k]}

\* exact comparison of two raw names, case ignored
EqualIgnoringCase(a, b) ==
    /\ Len(a) = Len(b)
    /\ \A k \in 1..Len(a) : SameLetter(a[k], b[k])

\* C7: a record is matched exactly when some entity's raw name equals its
\* display name with case ignored
C7_MatchedIffSameRawName ==
    gpc \in {"loop", "render", "done"} =>
        \A i \in Records : status[i] # "PENDING" =>
            (status[i] \in {"MATCHED", "RENDERED", "RENDER_FAILED"}
                <=> \E e \in world : EqualIgnoringCase(e, country_names[i]))

C7_Witness ==
    /\ gpc = "done"
    /\ country_names = <<MALI, U_space_K>>
    /\ world = {mali, U_under_K}
    /\ status = <<"RENDERED", "UNMATCHED">>

(***************************************************************************)
(* create_database_with_image_paths                                        *)
(***************************************************************************)
Name == <<"N", "a", "m", "e">>
Population == <<"P", "o", "p">>
Area_km == <<"A", "r", "e", "a", " ", "k", "m">>
Code == <<"C", "o", "d", "e">>
ImagePathColumn == <<"i", "m", "a", "g", "e", "_", "p", "a", "t", "h">>

\* a CSV value above the largest SQLite INTEGER: pandas reads the column as
\* uint64 and sqlite3 raises OverflowError when it binds the value
TooLargeForSqlite == "9223372036854775808"

\* what pd.read_csv(csv_file_path) finds: no file, a file without data, or a
\* table with a header row
CsvFiles == {
    [kind |-> "missing", columns |-> <<>>, dtypes |-> <<>>, rows |-> <<>>],
    [kind |-> "empty", columns |-> <<>>, dtypes |-> <<>>, rows |-> <<>>],
    [kind |-> "table", columns |-> <<Name, Population>>,
     dtypes |-> <<"object", "int64">>,
     rows |-> << <<Mali, "20">> >>],
    [kind |-> "table", columns |-> <<Name, Population>>,
     dtypes |-> <<"object", "uint64">>,
     rows |-> << <<U_space_K, "67">>, <<MALI, TooLargeForSqlite>>,
                 <<Atlantis, "1">> >>],
    [kind |-> "table", columns |-> <<Name, Area_km>>,
     dtypes |-> <<"object", "float64">>,
     rows |-> << <<U_under_K_dot, "1.5">> >>],
    [kind |-> "table", columns |-> <<Code>>,
     dtypes |-> <<"int64">>,
     rows |-> << <<"1">> >>] }

InitDb ==
    /\ dpc = "idle" /\ conn = "none" /\ csv = NoFrame /\ countries_df = NoFrame
    /\ db_table = NoTable /\ pending = <<>> /\ rows_before = <<>>
    /\ failed = "" /\ runs = 0
    /\ PathIdle /\ MapIdle

\* lines 6-18: the function is called; conn = None
Call ==
    /\ dpc \in {"idle", "returned"}
    /\ runs < MaxRuns
    /\ runs' = runs + 1
    /\ csv' \in CsvFiles
    /\ conn' = "none"
    /\ countries_df' = NoFrame
    /\ pending' = <<>>
    /\ rows_before' = db_table.rows
    /\ failed' = ""
    /\ dpc' = "connect"
    /\ UNCHANGED <<db_table, pathVars, mapVars>>

\* lines 20-21: sqlite3.connect opens the file
ConnectOk ==
    /\ dpc = "connect"
    /\ conn' = "open"
    /\ dpc' = "read_csv"
    /\ UNCHANGED <<csv, countries_df, db_table, pending, rows_before, failed,
                   runs, pathVars, mapVars>>

\* line 20, 75-76: sqlite3.connect raises (the file cannot be opened)
ConnectFails ==
    /\ dpc = "connect"
    /\ failed' = "sqlite3.Error"
    /\ dpc' = "finally"
    /\ UNCHANGED <<conn, csv, countries_df, db_table, pending, rows_before,
                   runs, pathVars, mapVars>>

\* line 27: the CSV is read
ReadCsv ==
    /\ dpc = "read_csv"
    /\ csv.kind = "table"
    /\ countries_df' = csv
    /\ dpc' = "image_path"
    /\ UNCHANGED <<conn, csv, db_table, pending, rows_before, failed, runs,
                   pathVars, mapVars>>

\* lines 27, 71-72: FileNotFoundError
ReadCsvNotFound ==
    /\ dpc = "read_csv"
    /\ csv.kind = "missing"
    /\ failed' = "FileNotFoundError"
    /\ dpc' = "finally"
    /\ UNCHANGED <<conn, csv, countries_df, db_table, pending, rows_before,
                   runs, pathVars, mapVars>>

\* lines 27, 73-74: pd.errors.EmptyDataError
ReadCsvEmpty ==
    /\ dpc = "read_csv"
    /\ csv.kind = "empty"
    /\ failed' = "EmptyDataError"
    /\ dpc' = "finally"
    /\ UNCHANGED <<conn, csv, countries_df, db_table, pending, rows_before,
                   runs, pathVars, mapVars>>

\* lines 31-38: the image_path column is added, computed from the first column
AddImagePath ==
    /\ dpc = "image_path"
    /\ countries_df.dtypes[1] = "object"
    /\ countries_df' =
         [countries_df EXCEPT
            !.columns = Append(@, ImagePathColumn),
            !.dtypes = Append(@, "object"),
            !.rows = [r \in 1..Len(@) |->
                        Append(@[r], image_path(OutputFolder, @[r][1]))]]
    /\ dpc' = "create_table"
    /\ UNCHANGED <<conn, csv, db_table, pending, rows_before, failed, runs,
                   pathVars, mapVars>>

\* lines 35-38, 77-78: the first column holds numbers: name.lower() raises
\* AttributeError
AddImagePathFails ==
    /\ dpc = "image_path"
    /\ countries_df.dtypes[1] # "object"
    /\ failed' = "Exception"
    /\ dpc' = "finally"
    /\ UNCHANGED <<conn, csv, countries_df, db_table, pending, rows_before,
                   runs, pathVars, mapVars>>

\* lines 44-49
sqlite_type(dtype) ==
    IF dtype = "int64" THEN "INTEGER"
    ELSE IF dtype = "float64" THEN "REAL"
    ELSE "TEXT"

\* line 61 and line 50: col.replace(' ', '_')
column_name(col) == replace(col, " ", <<"_">>)

\* lines 42-50
column_definitions ==
    [c \in 1..Len(countries_df.columns) |->
        <<column_name(countries_df.columns[c]), sqlite_type(countries_df.dtypes[c])>>]

\* lines 52-54: CREATE TABLE IF NOT EXISTS, the table is not there yet; the
\* statement is not part of a transaction and takes effect at once
CreateTableNew ==
    /\ dpc = "create_table"
    /\ ~db_table.exists
    /\ db_table' = [exists |-> TRUE, columns |-> column_definitions, rows |-> <<>>]
    /\ dpc' = "insert"
    /\ UNCHANGED <<conn, csv, countries_df, pending, rows_before, failed, runs,
                   pathVars, mapVars>>

\* a plausible slip: the table is dropped and created again on every run
CreateTableReplaces ==
    /\ dpc = "create_table"
    /\ db_table.exists
    /\ db_table' = [exists |-> TRUE, columns |-> column_definitions, rows |-> <<>>]
    /\ dpc' = "insert"
    /\ UNCHANGED <<conn, csv, countries_df, pending, rows_before, failed, runs,
                   pathVars, mapVars>>

\* lines 52-54: CREATE TABLE IF NOT EXISTS, the table exists: nothing is done
CreateTableExists ==
    /\ dpc = "create_table"
    /\ db_table.exists
    /\ dpc' = "insert"
    /\ UNCHANGED <<conn, csv, countries_df, db_table, pending, rows_before,
                   failed, runs, pathVars, mapVars>>

\* line 58
data_to_insert == countries_df.rows

\* line 61: the columns the INSERT statement names
insert_columns == {column_name(countries_df.columns[c]) : c \in 1..Len(countries_df.columns)}

table_columns == {db_table.columns[c][1] : c \in 1..Len(db_table.columns)}

\* sqlite3 can bind every value of the row
Bindable(row) == \A c \in 1..Len(row) : row[c] # TooLargeForSqlite

Unbindable == {r \in 1..Len(data_to_insert) : ~Bindable(data_to_insert[r])}

\* lines 63-66: executemany inserts every row inside the transaction that the
\* sqlite3 module opens before the first INSERT
InsertOk ==
    /\ dpc = "insert"
    /\ insert_columns \subseteq table_columns
    /\ Unbindable = {}
    /\ pending' = data_to_insert
    /\ dpc' = "commit"
    /\ UNCHANGED <<conn, csv, countries_df, db_table, rows_before, failed, runs,
                   pathVars, mapVars>>

\* lines 66, 75-76: the table has no column of that name: sqlite3.Error
\* before any row is inserted
InsertNoSuchColumn ==
    /\ dpc = "insert"
    /\ ~(insert_columns \subseteq table_columns)
    /\ failed' = "sqlite3.Error"
    /\ dpc' = "finally"
    /\ UNCHANGED <<conn, csv, countries_df, db_table, pending, rows_before,
                   runs, pathVars, mapVars>>

\* a plausible slip: the connection is in autocommit mode, so each row is
\* committed as it is inserted
InsertRowFailsAutocommit ==
    /\ dpc = "insert"
    /\ insert_columns \subseteq table_columns
    /\ Unbindable # {}
    /\ LET k == CHOOSE r \in Unbindable : \A q \in Unbindable : r <= q
       IN  db_table' = [db_table EXCEPT !.rows = @ \o SubSeq(data_to_insert, 1, k - 1)]
    /\ failed' = "Exception"
    /\ dpc' = "finally"
    /\ UNCHANGED <<conn, csv, countries_df, pending, rows_before, runs,
                   pathVars, mapVars>>

\* lines 66, 77-78: a row cannot be bound (OverflowError): the rows before
\* it are in the open transaction
InsertRowFails ==
    /\ dpc = "insert"
    /\ insert_columns \subseteq table_columns
    /\ Unbindable # {}
    /\ LET k == CHOOSE r \in Unbindable : \A q \in Unbindable : r <= q
       IN  pending' = SubSeq(data_to_insert, 1, k - 1)
    /\ failed' = "Exception"
    /\ dpc' = "finally"
    /\ UNCHANGED <<conn, csv, countries_df, db_table, rows_before, runs,
                   pathVars, mapVars>>

\* line 67: conn.commit()
Commit ==
    /\ dpc = "commit"
    /\ db_table' = [db_table EXCEPT !.rows = @ \o pending]
    /\ pending' = <<>>
    /\ dpc' = "finally"
    /\ UNCHANGED <<conn, csv, countries_df, rows_before, failed, runs,
                   pathVars, mapVars>>

\* a plausible slip: conn.close() at the end of the try block, not in finally
FinallyClosesOnSuccessOnly ==
    /\ dpc = "finally"
    /\ conn' = IF conn = "open" /\ failed = "" THEN "closed" ELSE conn
    /\ pending' = <<>>
    /\ dpc' = "returned"
    /\ UNCHANGED <<csv, countries_df, db_table, rows_before, failed, runs,
                   pathVars, mapVars>>

\* lines 79-82: if conn: conn.close(); what the transaction holds and was not
\* committed is discarded
Finally ==
    /\ dpc = "finally"
    /\ conn' = IF conn = "open" THEN "closed" ELSE conn
    /\ pending' = <<>>
    /\ dpc' = "returned"
    /\ UNCHANGED <<csv, countries_df, db_table, rows_before, failed, runs,
                   pathVars, mapVars>>

NextDb ==
    \/ Call
    \/ ConnectOk
    \/ ConnectFails
    \/ ReadCsv
    \/ ReadCsvNotFound
    \/ ReadCsvEmpty
    \/ AddImagePath
    \/ AddImagePathFails
    \/ CreateTableNew
    \/ CreateTableExists
    \/ InsertOk
    \/ InsertNoSuchColumn
    \/ InsertRowFails
    \/ Commit
    \/ Finally

SpecDb == InitDb /\ [][NextDb]_vars

(***************************************************************************)
(* Properties of create_database_with_image_paths                          *)
(***************************************************************************)
IsPrefix(a, b) == Len(a) <= Len(b) /\ SubSeq(b, 1, Len(a)) = a

\* C8: a run against a file in which the table exists does not fail on the
\* table creation and never drops or alters the table: the column
\* definitions stay those of the run that created it, the rows present are
\* kept, and a commit appends the run's rows after them
C8_SchemaStepIdempotent ==
    [][db_table.exists =>
        /\ db_table'.exists
        /\ db_table'.columns = db_table.columns
        /\ IsPrefix(db_table.rows, db_table'.rows)
        /\ (dpc = "create_table" => (dpc' = "insert" /\ failed' = ""))
        /\ (dpc = "commit" => db_table'.rows = db_table.rows \o data_to_insert)]_vars

C8_Witness ==
    /\ runs = 2
    /\ dpc = "returned"
    /\ failed = ""
    /\ csv.dtypes = <<"object", "float64">>
    /\ db_table.columns = << <<Name, "TEXT">>,
                             <<<<"A", "r", "e", "a", "_", "k", "m">>, "REAL">>,
                             <<ImagePathColumn, "TEXT">> >>
    /\ Len(db_table.rows) = 2
    /\ db_table.rows[1] = db_table.rows[2]

\* C9: the function never returns with the connection it opened still open
C9_ConnectionClosedOnReturn ==
    dpc = "returned" => conn # "open"

C9_Witness ==
    /\ dpc = "returned"
    /\ conn = "closed"
    /\ failed = "Exception"
    /\ countries_df.dtypes = <<"object", "uint64", "object">>

\* C10: a run that fails before the commit leaves the rows of the table as
\* they were, and no run leaves only a part of its batch in the table
C10_AllOrNothing ==
    dpc = "returned" =>
        /\ (failed # "" => db_table.rows = rows_before)
        /\ \/ db_table.rows = rows_before
           \/ db_table.rows = rows_before \o data_to_insert

C10_Witness ==
    /\ dpc = "returned"
    /\ failed = "Exception"
    /\ Len(data_to_insert) = 3
    /\ Len(rows_before) = 1
    /\ db_table.rows = rows_before

====
